---- MODULE Spec2Model ----
(***************************************************************************)
(* The citizen-reporting REST API: the report, upvote and user route       *)
(* handlers over the hosted relational store.                              *)
(*                                                                         *)
(* The store is a collaborator: a call to it fails only for a reason of    *)
(* its contract (.single() on no row or several rows, a uniqueness         *)
(* violation), never spontaneously.                                        *)
(***************************************************************************)
EXTENDS Integers, Sequences, FiniteSets, TLC

VARIABLES
  users,     \* table users: a set of profile rows
  reports,   \* table reports: rows in insertion order (created_at ascending)
  upvotes,   \* table report_upvotes: row [report_id, user_id] -> number of copies
  pc,        \* position of each in-flight upvote request
  req,       \* locals of each in-flight upvote request
  resp,      \* the last response sent
  accounts,  \* the identity collaborator's accounts: [id, email]
  issued,    \* how many accounts the identity collaborator has created
  reg        \* per registration slot: the request in flight and where it stands

vars == <<users, reports, upvotes, pc, req, resp, accounts, issued, reg>>

\* ------------------------------------------------------------------ bounds

MaxReports == 2      \* rows the reports table may hold
MaxToggled == 1      \* rows the reports table may hold under the upvote handler
MaxListed == 3       \* rows the reports table may hold under the listing handlers
MaxProcs == 2        \* upvote requests in flight at once
MaxRegs == 2         \* registration requests in flight at once
MaxIssued == 2       \* accounts the identity collaborator may create

\* ------------------------------------------------------------------ values

Absent == "absent"   \* JS undefined: a query parameter or body field not sent
Null == "null"       \* SQL NULL / JS null

Truthy(x) == x \notin {Absent, Null, ""}

UserIds == {"c1", "c2", "o1", "o2"}
MunicipalityIds == {"m1", "m2"}
Categories == {"roads", "water"}
Coords == {"in_m1", "in_m2", "nowhere"}
Procs == 1..MaxProcs

SeedUsers ==
  { [id |-> "c1", role |-> "citizen",  municipality_id |-> "m1"],
    [id |-> "c2", role |-> "citizen",  municipality_id |-> Null],
    [id |-> "o1", role |-> "official", municipality_id |-> "m1"],
    [id |-> "o2", role |-> "official", municipality_id |-> "m2"] }

\* the accounts behind the seeded profiles
SeedAccounts ==
  { [id |-> "c1", email |-> "c1@civic"], [id |-> "c2", email |-> "c2@civic"],
    [id |-> "o1", email |-> "o1@civic"], [id |-> "o2", email |-> "o2@civic"] }

RegProcs == 1..MaxRegs
Emails == {"n1@civic", "n2@civic"}

\* a registration slot with no request in it
RegIdle ==
  [ pc |-> "idle", accountId |-> Null, email |-> Null, role |-> Null,
    municipality_id |-> Null, coord |-> Null ]

\* ------------------------------------------------------------------ helpers

formatError(msg, code) == [status |-> code, error |-> msg, data |-> [none |-> TRUE]]

formatSuccess(payload, code) == [status |-> code, error |-> "", data |-> payload]

NoResp == [status |-> 0, error |-> "", data |-> [none |-> TRUE]]

getMunicipalityFromCoordinates(coord) ==
  IF coord = "in_m1" THEN "m1" ELSE IF coord = "in_m2" THEN "m2" ELSE Null

authenticateToken(u) == CHOOSE row \in users : row.id = u

requireCitizen(user) == user.role = "citizen"

requireOfficial(user) == user.role = "official"

\* supabase .single(): the row when exactly one matches, else an error
SingleOfSeq(rows) ==
  IF Len(rows) = 1 THEN [data |-> rows[1], error |-> FALSE]
  ELSE [data |-> Null, error |-> TRUE]

SingleOfSet(rows) ==
  IF Cardinality(rows) = 1 THEN [data |-> CHOOSE r \in rows : TRUE, error |-> FALSE]
  ELSE [data |-> Null, error |-> TRUE]

ReportsById(id) == SelectSeq(reports, LAMBDA r : r.id = id)

\* ------------------------------------------------------------------ state

Init ==
  /\ users = SeedUsers
  /\ reports = << >>
  /\ upvotes = [r \in {} |-> 0]
  /\ pc = [p \in Procs |-> "idle"]
  /\ req = [p \in Procs |-> [userId |-> Null, reportId |-> Null, existing |-> FALSE]]
  /\ resp = NoResp
  /\ accounts = SeedAccounts
  /\ issued = 0
  /\ reg = [p \in RegProcs |-> RegIdle]

CountIn(table, row) == IF row \in DOMAIN table THEN table[row] ELSE 0

UpvoteCount(reportId, userId) == CountIn(upvotes, <<reportId, userId>>)

\* ----------------------------------------------------- POST /reports (create)

\* mutant: the coordinates are geocoded first, the caller's municipality second
ResolveMunicipality_GeoFirst(user, coord) ==
  IF Truthy(getMunicipalityFromCoordinates(coord))
  THEN getMunicipalityFromCoordinates(coord)
  ELSE user.municipality_id

\* lines 16-20: the caller's municipality, else the geocoding of the coordinates
ResolveMunicipality(user, coord) ==
  IF Truthy(user.municipality_id) THEN user.municipality_id
  ELSE getMunicipalityFromCoordinates(coord)

\* the row the store inserts: id and created_at are store-assigned, status and
\* assigned_official take the column defaults
NewReport(userId, municipalityId, category) ==
  [ id |-> ToString(Len(reports) + 1), created_by |-> userId, municipality_id |-> municipalityId,
    category |-> category, status |-> "open", assigned_official |-> Null ]

\* lines 10-65: the response and the reports table the handler leaves
PostOutcome(u, coord, category) ==
  LET user == authenticateToken(u)
      municipalityId == ResolveMunicipality(user, coord)
      report == NewReport(user.id, municipalityId, category)
  IN IF ~requireCitizen(user)
     THEN [resp |-> formatError("Insufficient role", 403), reports |-> reports]
     ELSE IF ~Truthy(municipalityId)
     THEN [ resp |-> formatError("Could not determine municipality for this location", 400),
            reports |-> reports ]
     ELSE [ resp |-> formatSuccess([report |-> report], 201),
            reports |-> Append(reports, report) ]

PostReport(u, coord, category) ==
  /\ resp' = PostOutcome(u, coord, category).resp
  /\ reports' = PostOutcome(u, coord, category).reports
  /\ UNCHANGED <<users, accounts, issued, reg, upvotes, pc, req>>

\* ------------------------------------------- POST /reports/:id/upvote (toggle)

\* the store's insert into report_upvotes, whose (report_id, user_id) is unique
InsertUpvote(row) ==
  IF row \in DOMAIN upvotes
  THEN [error |-> TRUE, table |-> upvotes]
  ELSE [error |-> FALSE, table |-> (row :> 1) @@ upvotes]

\* mutant: the delete filters on a key that matches no row
DeleteUpvote_WrongKey(row) == upvotes

\* the store's delete of every row matching (report_id, user_id)
DeleteUpvote(row) == [r \in DOMAIN upvotes \ {row} |-> upvotes[r]]

\* mutant: the self-upvote check compares the wrong column
IsOwnReport_WrongColumn(report, userId) == report.id = userId

\* lines 235-238
IsOwnReport(report, userId) == report.created_by = userId

\* lines 219-238: the response that ends the request at the gate, the report
\* lookup or the self-upvote check; NoResp when the handler goes on
UpvoteRefusal(u, id) ==
  LET user == authenticateToken(u)
      found == SingleOfSeq(ReportsById(id))
  IN IF ~requireCitizen(user) THEN formatError("Insufficient role", 403)
     ELSE IF found.error THEN formatError("Report not found", 404)
     ELSE IF IsOwnReport(found.data, user.id)
     THEN formatError("Cannot upvote your own report", 400)
     ELSE NoResp

\* lines 219-238; a request takes the first free slot
UpvoteStart(p, u, id) ==
  /\ pc[p] = "idle"
  /\ \A q \in Procs : q < p => pc[q] # "idle"
  /\ IF UpvoteRefusal(u, id) # NoResp
       THEN /\ resp' = UpvoteRefusal(u, id)
            /\ UNCHANGED <<pc, req>>
       ELSE /\ pc' = [pc EXCEPT ![p] = "lookup"]
            /\ req' = [req EXCEPT ![p] = [userId |-> u, reportId |-> id, existing |-> FALSE]]
            /\ UNCHANGED resp
  /\ UNCHANGED <<users, accounts, issued, reg, reports, upvotes>>

\* lines 240-246: .single() yields the row only when exactly one matches
UpvoteLookup(p) ==
  /\ pc[p] = "lookup"
  /\ req' = [req EXCEPT ![p].existing = (UpvoteCount(req[p].reportId, req[p].userId) = 1)]
  /\ pc' = [pc EXCEPT ![p] = "write"]
  /\ UNCHANGED <<users, accounts, issued, reg, reports, upvotes, resp>>

\* lines 248-275: delete when the lookup saw a row, insert otherwise
UpvoteWrite(p) ==
  LET row == <<req[p].reportId, req[p].userId>>
      ins == InsertUpvote(row)
  IN /\ pc[p] = "write"
     /\ IF req[p].existing
          THEN /\ upvotes' = DeleteUpvote(row)
               /\ resp' = formatSuccess([upvoted |-> FALSE], 200)
          ELSE IF ins.error
          THEN /\ resp' = formatError("Failed to add upvote", 400)
               /\ UNCHANGED upvotes
          ELSE /\ upvotes' = ins.table
               /\ resp' = formatSuccess([upvoted |-> TRUE], 200)
     /\ pc' = [pc EXCEPT ![p] = "idle"]
     /\ req' = [req EXCEPT ![p] = [userId |-> Null, reportId |-> Null, existing |-> FALSE]]
     /\ UNCHANGED <<users, accounts, issued, reg, reports>>

\* ------------------------------------------------ PUT /reports/:id (update)

UpdateFields == {"status", "assigned_official", "created_by", "municipality_id", "id"}
ImmutableFields == {"created_by", "municipality_id", "id"}

\* a request body: every field of the patch, Absent when not sent
Body(status, assigned, created_by, municipality_id, id) ==
  [ status |-> status, assigned_official |-> assigned, created_by |-> created_by,
    municipality_id |-> municipality_id, id |-> id ]

Bodies ==
  { Body(s, a, Absent, Absent, Absent) :
      s \in {Absent, "resolved"}, a \in {Absent, "o1", "o2", "c1"} }
  \cup { Body("resolved", Absent, "c2", Absent, Absent),
         Body("resolved", Absent, Absent, "m2", Absent),
         Body("resolved", Absent, Absent, Absent, ToString(MaxReports)) }

HasImmutable(body) == \E f \in ImmutableFields : body[f] # Absent

StripImmutable(body) == [f \in UpdateFields |-> IF f \in ImmutableFields THEN Absent ELSE body[f]]

\* mutant: the schema lets created_by, municipality_id and id through
validateUpdate_PassThrough(body) == { [ok |-> TRUE, value |-> body] }

\* validateRequest(updateReportSchema): a body naming created_by, municipality_id
\* or id is rejected, or has those fields dropped; the set of allowed outcomes
validateUpdate(body) ==
  IF HasImmutable(body)
  THEN { [ok |-> FALSE, value |-> body], [ok |-> TRUE, value |-> StripImmutable(body)] }
  ELSE { [ok |-> TRUE, value |-> body] }

\* mutant: the assignee lookup forgets the municipality filter
AssigneeLookup_AnyMunicipality(assigned, currentUser) ==
  SingleOfSet({ row \in users : row.id = assigned /\ row.role = "official" })

\* lines 306-318: the assignee must be an official of the acting official's municipality
AssigneeLookup(assigned, currentUser) ==
  SingleOfSet({ row \in users : /\ row.id = assigned
                                /\ row.role = "official"
                                /\ row.municipality_id = currentUser.municipality_id })

\* .update(updates): every field sent overwrites the column
ApplyPatch(row, updates) ==
  [ f \in DOMAIN row |->
      IF f \in DOMAIN updates /\ updates[f] # Absent THEN updates[f] ELSE row[f] ]

\* .update(updates).eq('id', id)
UpdateRows(id, updates) ==
  [ i \in 1..Len(reports) |->
      IF reports[i].id = id THEN ApplyPatch(reports[i], updates) ELSE reports[i] ]

\* lines 284-354, given the validator's verdict v: the response and the
\* reports table the handler leaves
PutOutcome(u, id, v) ==
  LET currentUser == authenticateToken(u)
      found == SingleOfSeq(ReportsById(id))
      updates == v.value
      after == UpdateRows(id, updates)
      updated == SingleOfSeq(SelectSeq(after, LAMBDA r : r.id = id))
      refused(msg, code) == [resp |-> formatError(msg, code), reports |-> reports]
  IN IF ~requireOfficial(currentUser) THEN refused("Insufficient role", 403)
     ELSE IF ~v.ok THEN refused("Validation failed", 400)
     ELSE IF found.error THEN refused("Report not found", 404)
     ELSE IF found.data.municipality_id # currentUser.municipality_id
     THEN refused("Access denied", 403)
     ELSE IF /\ Truthy(updates.assigned_official)
             /\ AssigneeLookup(updates.assigned_official, currentUser).error
     THEN refused("Invalid official assignment", 400)
     ELSE [ resp |-> IF updated.error
                     THEN formatError("Failed to update report", 400)
                     ELSE formatSuccess([report |-> updated.data], 200),
            reports |-> after ]

\* The handler's two reads are of data no request changes (a report's
\* municipality_id, the users rows), so the three store calls are one step.
PutReport(u, id, body) ==
  /\ \E v \in validateUpdate(body) :
       /\ resp' = PutOutcome(u, id, v).resp
       /\ reports' = PutOutcome(u, id, v).reports
  /\ UNCHANGED <<users, accounts, issued, reg, upvotes, pc, req>>

\* --------------------------------------------- query values and pagination

\* a JS value of a pagination parameter: undefined, a number, or the decimal
\* string the query string carries (its digits)
JsUndefined == [t |-> "undefined", n |-> 0, s |-> << >>]
JsNum(n) == [t |-> "number", n |-> n, s |-> << >>]
JsStr(digits) == [t |-> "string", n |-> 0, s |-> digits]

RECURSIVE ToDigits(_)
ToDigits(n) == IF n < 10 THEN <<n>> ELSE ToDigits(n \div 10) \o <<n % 10>>

RECURSIVE DigitsValue(_)
DigitsValue(digits) ==
  IF digits = << >> THEN 0
  ELSE 10 * DigitsValue(SubSeq(digits, 1, Len(digits) - 1)) + digits[Len(digits)]

ToStr(v) == IF v.t = "string" THEN v.s ELSE ToDigits(v.n)

ToNumber(v) == IF v.t = "string" THEN DigitsValue(v.s) ELSE v.n

\* destructuring default: { limit = 50, offset = 0 } = req.query
OrDefault(v, d) == IF v.t = "undefined" THEN JsNum(d) ELSE v

\* JS a + b: concatenation as soon as one operand is a string
JsAdd(a, b) ==
  IF a.t = "string" \/ b.t = "string" THEN JsStr(ToStr(a) \o ToStr(b))
  ELSE JsNum(a.n + b.n)

\* JS a - b: both operands converted to numbers
JsSub(a, b) == JsNum(ToNumber(a) - ToNumber(b))

\* the last row asked of the store: offset + limit - 1
RangeTo(offset, limit) == JsSub(JsAdd(offset, limit), JsNum(1))

Min(a, b) == IF a < b THEN a ELSE b

Reverse(seq) == [i \in 1..Len(seq) |-> seq[Len(seq) + 1 - i]]

\* .range(from, to): the rows at 0-indexed positions from..to of the result
Range(rows, from, to) == SubSeq(rows, ToNumber(from) + 1, Min(ToNumber(to) + 1, Len(rows)))

\* if (status) query.eq('status', status); if (category) query.eq('category', category)
MatchesFilters(r, q) ==
  /\ Truthy(q.status) => r.status = q.status
  /\ Truthy(q.category) => r.category = q.category

\* .order('created_at', { ascending: false })
NewestFirst(rows) == Reverse(rows)

\* --------------------------------------------------------- GET /reports/mine

GetMineResponse(u, q) ==
  LET user == authenticateToken(u)
      limit == OrDefault(q.limit, 50)
      offset == OrDefault(q.offset, 0)
      matching == SelectSeq(reports, LAMBDA r : r.created_by = user.id /\ MatchesFilters(r, q))
      rows == Range(NewestFirst(matching), offset, RangeTo(offset, limit))
  IN IF ~requireCitizen(user)
     THEN formatError("Insufficient role", 403)
     ELSE formatSuccess([reports |-> rows, total |-> Len(rows)], 200)

GetMine(u, q) ==
  /\ resp' = GetMineResponse(u, q)
  /\ UNCHANGED <<users, accounts, issued, reg, reports, upvotes, pc, req>>

\* -------------------------------------------------------------- GET /reports

\* mutant: the filter is silently clamped to the caller's municipality
TargetMunicipality_Clamped(q, user) == user.municipality_id

\* line 116: municipality_id || userMunicipalityId
TargetMunicipality(q, user) ==
  IF Truthy(q.municipality_id) THEN q.municipality_id ELSE user.municipality_id

GetReportsResponse(u, q) ==
  LET user == authenticateToken(u)
      limit == OrDefault(q.limit, 50)
      offset == OrDefault(q.offset, 0)
      targetMunicipalityId == TargetMunicipality(q, user)
      matching == SelectSeq(reports, LAMBDA r : /\ r.municipality_id = targetMunicipalityId
                                                /\ MatchesFilters(r, q))
      rows == Range(NewestFirst(matching), offset, RangeTo(offset, limit))
  IN IF ~requireOfficial(user)
     THEN formatError("Insufficient role", 403)
     ELSE IF targetMunicipalityId # user.municipality_id
     THEN formatError("Access denied to reports from other municipalities", 403)
     ELSE formatSuccess([reports |-> rows, total |-> Len(rows)], 200)

GetReports(u, q) ==
  /\ resp' = GetReportsResponse(u, q)
  /\ UNCHANGED <<users, accounts, issued, reg, reports, upvotes, pc, req>>

\* ---------------------------------------------------------- GET /reports/:id

\* mutant: an official is let through without the municipality comparison
CanAccessReport_AnyOfficial(currentUser, report) ==
  \/ currentUser.role = "citizen" /\ report.created_by = currentUser.id
  \/ currentUser.role = "official"

\* lines 199-201
CanAccessReport(currentUser, report) ==
  \/ currentUser.role = "citizen" /\ report.created_by = currentUser.id
  \/ currentUser.role = "official" /\ report.municipality_id = currentUser.municipality_id

GetReportByIdResponse(u, id) ==
  LET currentUser == authenticateToken(u)
      found == SingleOfSeq(ReportsById(id))
  IN IF found.error
     THEN formatError("Report not found", 404)
     ELSE IF ~CanAccessReport(currentUser, found.data)
     THEN formatError("Access denied", 403)
     ELSE formatSuccess([report |-> found.data], 200)

GetReportById(u, id) ==
  /\ resp' = GetReportByIdResponse(u, id)
  /\ UNCHANGED <<users, accounts, issued, reg, reports, upvotes, pc, req>>

\* ------------------------------------------------- GET /users/:id, /users/me

\* lines 42-45
CanAccessUser(currentUser, userData) ==
  \/ currentUser.id = userData.id
  \/ currentUser.role = "official" /\ currentUser.municipality_id = userData.municipality_id

\* lines 9-57: the handler of '/:id'
GetUserById(u, id) ==
  LET currentUser == authenticateToken(u)
      found == SingleOfSet({ row \in users : row.id = id })
  IN IF found.error
     THEN formatError("User not found", 404)
     ELSE IF ~CanAccessUser(currentUser, found.data)
     THEN formatError("Access denied", 403)
     ELSE formatSuccess([user |-> found.data], 200)

\* lines 60-93: the handler of '/me'
GetMe(u) ==
  LET found == SingleOfSet({ row \in users : row.id = authenticateToken(u).id })
  IN IF found.error
     THEN formatError("User not found", 404)
     ELSE formatSuccess([user |-> found.data], 200)

\* the router's stack, in the order the routes are registered
UserRoutes == << [path |-> ":id", handler |-> "getUserById"],
                 [path |-> "me",  handler |-> "getMe"] >>

\* a path parameter matches any segment, a literal only itself
RouteMatches(path, segment) == path = ":id" \/ path = segment

\* express runs the first registered route that matches
Dispatch(segment) ==
  LET hits == SelectSeq(UserRoutes, LAMBDA route : RouteMatches(route.path, segment))
  IN hits[1].handler

GetUsersResponse(u, segment) ==
  IF Dispatch(segment) = "getUserById" THEN GetUserById(u, segment) ELSE GetMe(u)

GetUsers(u, segment) ==
  /\ resp' = GetUsersResponse(u, segment)
  /\ UNCHANGED <<users, accounts, issued, reg, reports, upvotes, pc, req>>

\* ------------------------------------------------------- POST /auth/register

\* request bodies the schema validator lets through: lat and lng travel together
\* as one coordinate, Absent when they were not sent
RegBodies ==
  [ email : Emails, role : {"citizen"}, municipality_id : {Absent}, coord : {"in_m2", "nowhere"} ]
    \cup [ email : Emails, role : {"citizen"}, municipality_id : {"m1"}, coord : {Absent} ]
    \cup [ email : Emails, role : {"official"}, municipality_id : {"m1"}, coord : {"in_m2"} ]

\* what a call to a collaborator can come back with: a result, an error value,
\* or a rejected promise
SignUpOutcomes == {"ok", "error", "none", "throws"}
GeocodeOutcomes == {"ok", "throws"}
InsertOutcomes == {"ok", "rejected", "throws"}
DeleteOutcomes == {"ok", "error", "throws"}

EmailTaken(email) == \E a \in accounts : a.email = email

NewAccountId == "u" \o ToString(issued + 1)

\* line 30: role === 'citizen' && lat && lng && !municipality_id
NeedsGeocoding(body) ==
  body.role = "citizen" /\ Truthy(body.coord) /\ ~Truthy(body.municipality_id)

\* the request in slot p ends with this response
RegEnd(p, response) ==
  /\ resp' = response
  /\ reg' = [reg EXCEPT ![p] = RegIdle]

\* lines 66-69: a rejected await lands in the catch block
RegCatch(p) == RegEnd(p, formatError("Internal server error", 500))

\* lines 9-32: signUp and what follows up to the next await; a request takes
\* the first free slot
RegSignUp(p, body, outcome) ==
  /\ reg[p].pc = "idle"
  /\ \A q \in RegProcs : q < p => reg[q].pc # "idle"
  /\ EmailTaken(body.email) => outcome \in {"error", "throws"}
  /\ outcome = "ok" => issued < MaxIssued
  /\ CASE outcome = "throws" ->
            /\ RegCatch(p)
            /\ UNCHANGED <<accounts, issued>>
       [] outcome = "error" ->
            /\ RegEnd(p, formatError("authError.message", 400))
            /\ UNCHANGED <<accounts, issued>>
       [] outcome = "none" ->
            /\ RegEnd(p, formatError("Failed to create user account", 400))
            /\ UNCHANGED <<accounts, issued>>
       [] outcome = "ok" ->
            /\ accounts' = accounts \cup {[id |-> NewAccountId, email |-> body.email]}
            /\ issued' = issued + 1
            /\ reg' = [reg EXCEPT ![p] =
                 [ pc |-> IF NeedsGeocoding(body) THEN "geocode" ELSE "insert",
                   accountId |-> NewAccountId, email |-> body.email, role |-> body.role,
                   municipality_id |-> body.municipality_id, coord |-> body.coord ]]
            /\ UNCHANGED resp
  /\ UNCHANGED <<users, reports, upvotes, pc, req>>

\* line 31: finalMunicipalityId = await getMunicipalityFromCoordinates(lat, lng)
RegGeocode(p, outcome) ==
  /\ reg[p].pc = "geocode"
  /\ IF outcome = "throws"
       THEN RegCatch(p)
       ELSE /\ reg' = [reg EXCEPT ![p].pc = "insert",
                                  ![p].municipality_id =
                                     getMunicipalityFromCoordinates(reg[p].coord)]
            /\ UNCHANGED resp
  /\ UNCHANGED <<users, reports, upvotes, pc, req, accounts, issued>>

\* the profile row of lines 37-46, with the fields the other handlers read
ProfileRow(r) ==
  [ id |-> r.accountId, role |-> r.role,
    municipality_id |-> IF Truthy(r.municipality_id) THEN r.municipality_id ELSE Null ]

\* lines 35-64: the profile insert and, when it went through, the 201
RegInsert(p, outcome) ==
  /\ reg[p].pc = "insert"
  /\ CASE outcome = "throws" ->
            /\ RegCatch(p)
            /\ UNCHANGED users
       [] outcome = "rejected" ->
            /\ reg' = [reg EXCEPT ![p].pc = "cleanup"]
            /\ UNCHANGED <<users, resp>>
       [] outcome = "ok" ->
            /\ users' = users \cup {ProfileRow(reg[p])}
            /\ RegEnd(p, formatSuccess([user |-> ProfileRow(reg[p])], 201))
  /\ UNCHANGED <<reports, upvotes, pc, req, accounts, issued>>

\* lines 50-57: deleteUser, whose result is not looked at, then the 400
RegCleanup(p, outcome) ==
  /\ reg[p].pc = "cleanup"
  /\ CASE outcome = "throws" ->
            /\ RegCatch(p)
            /\ UNCHANGED accounts
       [] outcome = "error" ->
            /\ RegEnd(p, formatError("Failed to create user profile", 400))
            /\ UNCHANGED accounts
       [] outcome = "ok" ->
            /\ accounts' = { a \in accounts : a.id # reg[p].accountId }
            /\ RegEnd(p, formatError("Failed to create user profile", 400))
  /\ UNCHANGED <<users, reports, upvotes, pc, req, issued>>

\* ------------------------------------------------------------ specifications

\* the coordinates that give each citizen one municipality: c1 its profile's,
\* c2 the located one, or none
SomeCoords == {"in_m2", "nowhere"}

ReportIds == { ToString(i) : i \in 1..MaxReports }
ToggledIds == { ToString(i) : i \in 1..MaxToggled }

\* an ordinary update, and one that tries to rewrite the author
RaceBodies ==
  { Body("resolved", "o1", Absent, Absent, Absent),
    Body(Absent, Absent, "c2", Absent, Absent) }

\* Spec: the handlers that write the store, upvote toggles interleaving step by
\* step with each other and with creates and updates
Next ==
  \/ \E u \in UserIds, coord \in SomeCoords :
       /\ Len(reports) < MaxToggled
       /\ PostReport(u, coord, "roads")
  \/ \E p \in Procs, u \in UserIds, id \in ToggledIds : UpvoteStart(p, u, id)
  \/ \E p \in Procs : UpvoteLookup(p)
  \/ \E p \in Procs : UpvoteWrite(p)
  \/ \E u \in UserIds, id \in ToggledIds, body \in RaceBodies : PutReport(u, id, body)

Spec == Init /\ [][Next]_vars

\* SpecUpdate: creation and update, over every body
NextUpdate ==
  \/ \E u \in UserIds, coord \in Coords :
       /\ Len(reports) < MaxReports
       /\ PostReport(u, coord, "roads")
  \/ \E u \in UserIds, id \in ReportIds, body \in Bodies : PutReport(u, id, body)

SpecUpdate == Init /\ [][NextUpdate]_vars

\* SpecRead: the GET handlers, over the stores that creates build
LimitParams == { JsUndefined, JsStr(<<1>>), JsStr(<<2>>) }
OffsetParams == { JsUndefined, JsStr(<<1>>) }

MineQueries ==
  [ status : {Absent, "resolved"}, category : {Absent, "water"},
    limit : LimitParams, offset : OffsetParams ]

ReportQueries ==
  [ municipality_id : {Absent, ""} \cup MunicipalityIds,
    status : {Absent, "resolved"}, category : {Absent, "water"},
    limit : LimitParams, offset : OffsetParams ]

ListedIds == { ToString(i) : i \in 1..MaxListed }

NextRead ==
  \/ \E u \in UserIds, coord \in SomeCoords, category \in Categories :
       /\ Len(reports) < MaxListed
       /\ PostReport(u, coord, category)
  \/ \E u \in UserIds, q \in MineQueries : GetMine(u, q)
  \/ \E u \in UserIds, q \in ReportQueries : GetReports(u, q)
  \/ \E u \in UserIds, id \in ListedIds : GetReportById(u, id)
  \/ \E u \in UserIds, segment \in UserIds \cup {"me"} : GetUsers(u, segment)

SpecRead == Init /\ [][NextRead]_vars

\* SpecSeq: as Spec, with no two toggles of one (report, user) pair in flight
\* at once
NoneInFlight(u, id) ==
  \A q \in Procs : pc[q] # "idle" => <<req[q].reportId, req[q].userId>> # <<id, u>>

NextSeq ==
  \/ \E u \in UserIds, coord \in SomeCoords :
       /\ Len(reports) < MaxToggled
       /\ PostReport(u, coord, "roads")
  \/ \E p \in Procs, u \in UserIds, id \in ToggledIds :
       /\ NoneInFlight(u, id)
       /\ UpvoteStart(p, u, id)
  \/ \E p \in Procs : UpvoteLookup(p)
  \/ \E p \in Procs : UpvoteWrite(p)
  \/ \E u \in UserIds, id \in ToggledIds, body \in RaceBodies : PutReport(u, id, body)

SpecSeq == Init /\ [][NextSeq]_vars

\* SpecRegister: registrations interleaving at their awaits, each collaborator
\* call coming back in any of the ways it can
NextRegister ==
  \/ \E p \in RegProcs, body \in RegBodies, outcome \in SignUpOutcomes :
       RegSignUp(p, body, outcome)
  \/ \E p \in RegProcs, outcome \in GeocodeOutcomes : RegGeocode(p, outcome)
  \/ \E p \in RegProcs, outcome \in InsertOutcomes : RegInsert(p, outcome)
  \/ \E p \in RegProcs, outcome \in DeleteOutcomes : RegCleanup(p, outcome)

SpecRegister == Init /\ [][NextRegister]_vars

\* ------------------------------------------------------------------ claims

AuthorOf(id) == { r.created_by : r \in { reports[i] : i \in { j \in 1..Len(reports) : reports[j].id = id } } }

NoSelfUpvoteRow == \A row \in DOMAIN upvotes : row[2] \notin AuthorOf(row[1])

NoSelfUpvoteInFlight ==
  \A p \in Procs : pc[p] # "idle" => req[p].userId \notin AuthorOf(req[p].reportId)

SelfUpvoteRejected ==
  \A u \in UserIds, id \in ToggledIds :
    u \in AuthorOf(id) => UpvoteRefusal(u, id) = formatError("Cannot upvote your own report", 400)

\* C3: in every state reached by interleaved creates, toggles and updates, no
\* upvote row (and no toggle in flight, the only writer of the table) pairs a
\* report with its author, and a toggle by the author of an existing report is
\* ended 400 "Cannot upvote your own report" before any lookup or write.
C3_NoSelfUpvote == NoSelfUpvoteRow /\ NoSelfUpvoteInFlight /\ SelfUpvoteRejected

\* an author's toggle was refused while another user's upvote of a report stands
C3_Witness ==
  /\ resp = formatError("Cannot upvote your own report", 400)
  /\ DOMAIN upvotes # {}

ToggleFlips ==
  \A p \in Procs :
    UpvoteWrite(p) =>
      LET row == <<req[p].reportId, req[p].userId>>
          before == CountIn(upvotes, row)
          after == CountIn(upvotes', row)
      IN /\ before = 0 => (after = 1 /\ resp' = formatSuccess([upvoted |-> TRUE], 200))
         /\ before = 1 => (after = 0 /\ resp' = formatSuccess([upvoted |-> FALSE], 200))
         /\ before <= 1
         /\ \A other \in (DOMAIN upvotes \cup DOMAIN upvotes') \ {row} :
              CountIn(upvotes', other) = CountIn(upvotes, other)

OnlyTogglesWrite == (\A p \in Procs : ~UpvoteWrite(p)) => upvotes' = upvotes

AtMostOneRow == \A row \in DOMAIN upvotes : upvotes[row] <= 1

\* C4: with no concurrent request on the same (report, user) pair, a toggle of
\* an absent upvote inserts the row and answers {upvoted: true}, a toggle of a
\* present one deletes it and answers {upvoted: false}, nothing but a toggle's
\* write changes the table, and no pair ever has more than one row; so two
\* toggles in a row answer true then false (or false then true) and restore the
\* table.
C4_ToggleInvolution ==
  /\ []AtMostOneRow
  /\ [][ToggleFlips /\ OnlyTogglesWrite]_vars

\* the second of two toggles in a row has removed the upvote the first inserted
C4_Witness ==
  /\ resp = formatSuccess([upvoted |-> FALSE], 200)
  /\ DOMAIN upvotes = {}
  /\ Len(reports) > 0

\* C5: when a toggle that saw no upvote finds its insert rejected by the
\* uniqueness constraint, it answers as the upvote that exists (200, upvoted),
\* not with an error, and one row for the pair remains.
C5_DuplicateInsertIsNoOp ==
  [][ \A p \in Procs :
        LET row == <<req[p].reportId, req[p].userId>>
        IN (UpvoteWrite(p) /\ ~req[p].existing /\ CountIn(upvotes, row) > 0)
             => (resp'.status = 200 /\ CountIn(upvotes', row) = 1) ]_vars

ProfileOf(u) == CHOOSE row \in users : row.id = u

Officials == { u \in UserIds : ProfileOf(u).role = "official" }
Citizens == { u \in UserIds : ProfileOf(u).role = "citizen" }

RowsWithId(id) == { reports[i] : i \in { j \in 1..Len(reports) : reports[j].id = id } }

\* the assignee named by the body is no official of the report's municipality
BadAssignee(body, report) ==
  /\ Truthy(body.assigned_official)
  /\ ~ \E row \in users : /\ row.id = body.assigned_official
                          /\ row.role = "official"
                          /\ row.municipality_id = report.municipality_id

\* C6 as stated: whatever the acting official's municipality, an update naming
\* an assignee who is no official of the report's municipality ends 400
\* "Invalid official assignment" and leaves the report unchanged.
C6_AlwaysInvalidAssignment ==
  [][ \A u \in Officials, id \in ReportIds, body \in Bodies :
        \A report \in RowsWithId(id) :
          (BadAssignee(body, report) /\ PutReport(u, id, body))
            => /\ resp' = formatError("Invalid official assignment", 400)
               /\ reports' = reports ]_vars

\* C6 amended: such an update ends 400 "Invalid official assignment" when the
\* acting official belongs to the report's municipality and 403 "Access denied"
\* when not; either way the reports table is unchanged.
C6_InvalidAssignmentOrForbidden ==
  \A u \in Officials, id \in ReportIds, body \in Bodies :
    \A report \in RowsWithId(id), v \in validateUpdate(body) :
      BadAssignee(body, report) =>
        /\ PutOutcome(u, id, v).resp =
             IF ProfileOf(u).municipality_id = report.municipality_id
             THEN formatError("Invalid official assignment", 400)
             ELSE formatError("Access denied", 403)
        /\ PutOutcome(u, id, v).reports = reports

\* an assignment was refused on a report that is still unassigned
C6_Witness ==
  /\ resp = formatError("Invalid official assignment", 400)
  /\ \E i \in 1..Len(reports) : reports[i].assigned_official = Null

\* C7: no step changes the id, created_by or municipality_id of a report that
\* exists, and no step removes a report: an update whose body names one of the
\* three is refused or applied without them.
C7_ImmutableFields ==
  [][ /\ Len(reports') >= Len(reports)
      /\ \A i \in 1..Len(reports) :
           /\ reports'[i].id = reports[i].id
           /\ reports'[i].created_by = reports[i].created_by
           /\ reports'[i].municipality_id = reports[i].municipality_id ]_vars

\* a body naming an immutable field was refused, after an update was applied
C7_Witness ==
  /\ resp = formatError("Validation failed", 400)
  /\ \E i \in 1..Len(reports) : reports[i].status = "resolved"

\* C8: a citizen's create takes the caller's municipality when he has one and
\* the geocoding of the coordinates otherwise; with neither it ends 400 and
\* writes no row, else it appends exactly one row with created_by the caller,
\* that municipality, no assignee and no upvote, and ends 201.
C8_CreateResolvesMunicipality ==
  \A u \in Citizens, coord \in Coords, category \in Categories :
    LET own == ProfileOf(u).municipality_id
        m == IF own # Null THEN own ELSE getMunicipalityFromCoordinates(coord)
        n == Len(reports)
        out == PostOutcome(u, coord, category)
    IN IF m = Null
       THEN /\ out.resp = formatError("Could not determine municipality for this location", 400)
            /\ out.reports = reports
       ELSE /\ out.resp.status = 201
            /\ Len(out.reports) = n + 1
            /\ SubSeq(out.reports, 1, n) = reports
            /\ out.reports[n + 1].created_by = u
            /\ out.reports[n + 1].municipality_id = m
            /\ out.reports[n + 1].assigned_official = Null
            /\ \A row \in DOMAIN upvotes : row[1] # out.reports[n + 1].id

\* a citizen without a municipality has created a report where the geocoding
\* placed it, and was answered 201 with the stored row
C8_Witness ==
  /\ resp.status = 201
  /\ Len(reports) = MaxToggled
  /\ reports[MaxToggled].created_by = "c2"
  /\ reports[MaxToggled].municipality_id = "m2"
  /\ resp.data.report = reports[MaxToggled]

\* C1: an official's listing that succeeds holds only reports of the official's
\* own municipality, and a listing that names another municipality ends 403
\* "Access denied to reports from other municipalities", with no report in it.
C1_OfficialListingIsTenantScoped ==
  \A u \in Officials, q \in ReportQueries :
    LET m == ProfileOf(u).municipality_id
        answer == GetReportsResponse(u, q)
    IN /\ answer.status = 200 =>
            \A i \in 1..Len(answer.data.reports) :
              answer.data.reports[i].municipality_id = m
       /\ (q.municipality_id \in MunicipalityIds /\ q.municipality_id # m) =>
            answer = formatError("Access denied to reports from other municipalities", 403)
       /\ (q.municipality_id \in {Absent, m}) => answer.status = 200

\* a listing of another municipality was refused while both municipalities hold reports
C1_Witness ==
  /\ resp = formatError("Access denied to reports from other municipalities", 403)
  /\ \A m \in MunicipalityIds : \E i \in 1..Len(reports) : reports[i].municipality_id = m

\* C2: GET /reports/:id ends 404 when no report has the id; otherwise it returns
\* the report exactly when the caller is a citizen and its author, or an official
\* of its municipality, and ends 403 "Access denied" in every other case.
C2_ReportByIdAccess ==
  \A u \in UserIds, id \in ListedIds :
    LET answer == GetReportByIdResponse(u, id)
    IN IF RowsWithId(id) = {}
       THEN answer = formatError("Report not found", 404)
       ELSE \A report \in RowsWithId(id) :
              IF \/ ProfileOf(u).role = "citizen" /\ report.created_by = u
                 \/ /\ ProfileOf(u).role = "official"
                    /\ report.municipality_id = ProfileOf(u).municipality_id
              THEN answer = formatSuccess([report |-> report], 200)
              ELSE answer = formatError("Access denied", 403)

\* a report was returned by id while a report of the other municipality exists
C2_Witness ==
  /\ resp.status = 200
  /\ "report" \in DOMAIN resp.data
  /\ \E i \in 1..Len(reports) : reports[i].municipality_id # resp.data.report.municipality_id

ParamOr(v, d) == IF v.t = "undefined" THEN d ELSE DigitsValue(v.s)

\* the reports at positions O..O+L-1 of the newest-first matching reports
ExpectedPage(matching, q) ==
  LET o == ParamOr(q.offset, 0)
      l == ParamOr(q.limit, 50)
      newestFirst == Reverse(matching)
  IN SubSeq(newestFirst, o + 1, Min(o + l, Len(newestFirst)))

PageIs(page, q) ==
  /\ resp'.status = 200
  /\ resp'.data.reports = page
  /\ resp'.data.total = Len(page)
  /\ Len(page) <= ParamOr(q.limit, 50)

\* C9: both listings return exactly the matching reports at positions
\* O..O+L-1 of the newest-first order (L the limit, default 50; O the offset,
\* default 0), so at most L of them, with total their number.
C9_ListingPage ==
  [][ /\ \A u \in Citizens, q \in MineQueries :
           GetMine(u, q) =>
             PageIs(ExpectedPage(SelectSeq(reports, LAMBDA r :
                      r.created_by = u /\ MatchesFilters(r, q)), q), q)
      /\ \A u \in Officials, q \in ReportQueries :
           (GetReports(u, q) /\ q.municipality_id \in {Absent, ProfileOf(u).municipality_id}) =>
             PageIs(ExpectedPage(SelectSeq(reports, LAMBDA r :
                      /\ r.municipality_id = ProfileOf(u).municipality_id
                      /\ MatchesFilters(r, q)), q), q) ]_vars

\* C10: GET /users/me returns the caller's own profile, and GET /users/{id}
\* returns the profile when id is the caller's or the caller is an official of
\* the target's municipality, and ends 403 otherwise.
C10_UserProfileRoutes ==
  [][ \A u \in UserIds :
        /\ GetUsers(u, "me") => resp' = formatSuccess([user |-> ProfileOf(u)], 200)
        /\ \A id \in UserIds :
             GetUsers(u, id) =>
               IF \/ id = u
                  \/ /\ ProfileOf(u).role = "official"
                     /\ ProfileOf(u).municipality_id = ProfileOf(id).municipality_id
               THEN resp' = formatSuccess([user |-> ProfileOf(id)], 200)
               ELSE resp' = formatError("Access denied", 403) ]_vars

HasProfile(id) == \E row \in users : row.id = id
InFlight(id) == \E p \in RegProcs : reg[p].pc # "idle" /\ reg[p].accountId = id

\* C11: once a registration request has completed, the account it created
\* exists only if its profile row exists: every account in the identity
\* collaborator either has a profile row or belongs to a request still in
\* flight.
C11_NoAccountWithoutProfile ==
  \A a \in accounts : HasProfile(a.id) \/ InFlight(a.id)

====
